---- MODULE Spec2Model ----
(***************************************************************************)
(* Model of evcouplings/utils/pipeline.py: the registry PIPELINES and the  *)
(* resumable pipeline executor, the function execute.                     *)
(*                                                                         *)
(* Strings that the program concatenates or inspects (configuration keys,  *)
(* paths) are sequences of tokens, so that prefixing a key, appending a    *)
(* suffix to a path and testing a key's ending are computed as the code    *)
(* computes them.  A configuration mapping (a Python dict) is a function   *)
(* from keys to values.                                                    *)
(***************************************************************************)
EXTENDS Integers, Sequences, FiniteSets, TLC

\* ------------------------------------------------------------------------
\* Bounds of the model.

\* Number of execute calls in one behaviour.
MaxCalls == 2

\* Longest requested `stages` list.
MaxStages == 2

\* A configuration may lack the section of one of the first MaxMissing stages.
MaxMissing == 2

\* ------------------------------------------------------------------------
\* Generic helpers.

Range(s) == {s[i] : i \in 1..Len(s)}

Last(s) == s[Len(s)]

Front(s) == SubSeq(s, 1, Len(s) - 1)

\* the empty dict {}
EmptyDict == [k \in {} |-> <<>>]

\* {**a, **b}: the keys of both, b's value where both have the key
DictMerge(a, b) ==
    [k \in (DOMAIN a) \cup (DOMAIN b) |-> IF k \in DOMAIN b THEN b[k] ELSE a[k]]

\* ------------------------------------------------------------------------
\* The registry.

None == "None"

Descriptor(stage, runner, key_prefix) ==
    [stage |-> stage, runner |-> runner, key_prefix |-> key_prefix]

PIPELINES ==
    [protein_monomer |->
        << Descriptor("align", "ap.run", None),
           Descriptor("couplings", "cp.run", None),
           Descriptor("compare", "cm.run", None),
           Descriptor("mutate", "mt.run", None),
           Descriptor("fold", "fd.run", None) >>,
     protein_complex |->
        << Descriptor("align_1", "ap.run", "first_"),
           Descriptor("align_2", "ap.run", "second_"),
           Descriptor("concatenate", "pp.run", None),
           Descriptor("couplings", "cp.run", None) >>]

\* ", ".join(PIPELINES.keys()): the registered names, in registration order
PipelineNames == <<"protein_monomer", "protein_complex">>

FINAL_CONFIG_SUFFIX == <<"_final.outcfg">>

StageNames(pipeline) == [i \in 1..Len(pipeline) |-> pipeline[i].stage]

\* ------------------------------------------------------------------------
\* Collaborators imported from evcouplings.utils.config and
\* evcouplings.utils.system.  A result of execute is a record: kind is "ok"
\* or the kind of error raised, stage the stage or key the message names,
\* names the pipeline names an InvalidParameter message lists, state the
\* returned Global State.

Result(kind, stage, names, state) ==
    [kind |-> kind, stage |-> stage, names |-> names, state |-> state]

NoError == Result("none", "", <<>>, EmptyDict)

Raised(kind, stage) == Result(kind, stage, <<>>, EmptyDict)

\* check_required(params, keys): MissingParameter naming the first absent key
check_required(params, keys) ==
    IF \E i \in 1..Len(keys) : keys[i] \notin DOMAIN params
    THEN LET i == CHOOSE j \in 1..Len(keys) :
                      /\ keys[j] \notin DOMAIN params
                      /\ \A h \in 1..(j - 1) : keys[h] \in DOMAIN params
         IN  Raised("MissingParameter", keys[i])
    ELSE NoError

\* insert_dir(prefix, stage): the stage's directory nested under prefix,
\* followed by the root name of prefix
insert_dir(prefix, dir) == prefix \o <<"/", dir, "/", Last(prefix)>>

\* create_prefix_folders(prefix): the directory part of prefix exists afterwards
create_prefix_folders(existing, prefix) == existing \cup {Front(prefix)}

\* write_config_file(path, cfg): the record holds one "key: value" entry per key
Serialize(cfg) == {<<k, cfg[k]>> : k \in DOMAIN cfg}

write_config_file(recs, path, cfg) ==
    [p \in (DOMAIN recs) \cup {path} |->
        IF p = path THEN Serialize(cfg) ELSE recs[p]]

\* read_config_file(path): the mapping parsed back from the entries
read_config_file(recs, path) ==
    LET text == recs[path]
    IN  [k \in {e[1] : e \in text} |-> (CHOOSE e \in text : e[1] = k)[2]]

\* verify_resources(message, *paths): every path exists and is non-empty.
\* A record file is non-empty once written; recs and arts hold the paths that
\* exist and are non-empty, every other path is missing or empty.
verify_resources(recs, arts, paths) ==
    \A p \in paths : p \in DOMAIN recs \/ p \in arts

\* ------------------------------------------------------------------------
\* Stage runners (ap.run, cp.run, ...): opaque callables from an input
\* mapping to an output mapping, deterministic in their input.  Each names
\* its artifacts under keys ending in "_file", derives them from the prefix
\* it is handed and reports settings and upstream results it has read; the
\* alignment runner also reports the prefix it worked under.

Get(cfg, k, default) == IF k \in DOMAIN cfg THEN cfg[k] ELSE default

Unknown == <<"unknown">>

RunnerOut(runner, incfg) ==
    LET pre == incfg[<<"prefix">>]
    IN  CASE runner = "ap.run" ->
               (<<"alignment", "_file">> :> pre \o <<".a2m">>)
            @@ (<<"focus_sequence">> :> Get(incfg, <<"sequence_id">>, Unknown))
            @@ (<<"num_sites">> :> <<"aligned">>)
            @@ (<<"prefix">> :> pre)
          [] runner = "cp.run" ->
               (<<"ec", "_file">> :> pre \o <<"_CouplingScores.csv">>)
            @@ (<<"alignment_used">> :>
                    Get(incfg, <<"alignment", "_file">>, Unknown))
            @@ (<<"num_sites">> :> <<"coupled">>)
          [] runner = "cm.run" ->
               (<<"compared">> :> Get(incfg, <<"ec", "_file">>, Unknown))
          [] runner = "mt.run" ->
               (<<"mutated">> :> Get(incfg, <<"ec", "_file">>, Unknown))
          [] runner = "fd.run" ->
               (<<"folded">> :> Get(incfg, <<"ec", "_file">>, Unknown))
          [] runner = "pp.run" ->
               (<<"alignment", "_file">> :> pre \o <<"_concat.a2m">>)
            @@ (<<"first_used">> :>
                    Get(incfg, <<"first_", "alignment", "_file">>, Unknown))
            @@ (<<"second_used">> :>
                    Get(incfg, <<"second_", "alignment", "_file">>, Unknown))

\* the artifacts a runner names in what it returns
Artifacts(raw) == {raw[k] : k \in {f \in DOMAIN raw : Last(f) = "_file"}}

\* What a runner invocation can do: return after writing its artifacts,
\* return without having written them, or raise.
RunnerOutcomes == {"ok", "nofile", "raise"}

\* ------------------------------------------------------------------------
\* Pieces of execute.

\* the check of the stages made before the check of the pipeline
PreambleErrorStagesFirst(kw) ==
    IF check_required(kw, <<"pipeline", "stages", "global">>) # NoError
    THEN check_required(kw, <<"pipeline", "stages", "global">>)
    ELSE IF kw["stages"].none
    THEN Raised("InvalidParameter", "")
    ELSE IF kw["pipeline"] \notin DOMAIN PIPELINES
    THEN Result("InvalidParameter", "", PipelineNames, EmptyDict)
    ELSE IF <<"prefix">> \notin DOMAIN kw["global"]
    THEN Raised("KeyError", "prefix")
    ELSE NoError

\* lines 72-94: the checks before the first side effect
PreambleError(kw) ==
    IF check_required(kw, <<"pipeline", "stages", "global">>) # NoError
    THEN check_required(kw, <<"pipeline", "stages", "global">>)
    ELSE IF kw["pipeline"] \notin DOMAIN PIPELINES
    THEN Result("InvalidParameter", "", PipelineNames, EmptyDict)
    ELSE IF kw["stages"].none
    THEN Raised("InvalidParameter", "")
    ELSE IF <<"prefix">> \notin DOMAIN kw["global"]
    THEN Raised("KeyError", "prefix")
    ELSE NoError

\* line 108
NumStagesToRun(stages) == Len(stages)

\* the loop left one stage early
NothingLeftEarly(n) == n <= 1

\* line 114: nothing left to run
NothingLeft(n) == n = 0

\* the input record given the name of the output record
StageIncfgPathAsOutcfg(stage_prefix, stage) ==
    stage_prefix \o <<"_", stage, ".outcfg">>

\* lines 125-126
StageIncfgPath(stage_prefix, stage) == stage_prefix \o <<"_", stage, ".incfg">>

StageOutcfgPath(stage_prefix, stage) == stage_prefix \o <<"_", stage, ".outcfg">>

\* the requested list ignored: every stage reached is executed
ShouldExecuteAlways(stage, stages) == TRUE

\* the test inverted: the stages left out are the ones executed
ShouldExecuteInverted(stage, stages) == stage \notin Range(stages)

\* line 129
ShouldExecute(stage, stages) == stage \in Range(stages)

\* the stage section laid over the Global State
BuildIncfgSectionWins(kw, stage, gs, stage_prefix) ==
    DictMerge(DictMerge(DictMerge(DictMerge(kw["tools"], kw["databases"]),
                                  gs), kw[stage]),
              <<"prefix">> :> stage_prefix)

\* lines 132-138
BuildIncfg(kw, stage, gs, stage_prefix) ==
    DictMerge(DictMerge(DictMerge(DictMerge(kw["tools"], kw["databases"]),
                                  kw[stage]), gs),
              <<"prefix">> :> stage_prefix)

\* the output keys left as the runner returned them
ApplyKeyPrefixNever(key_prefix, outcfg) == outcfg

\* lines 148-151
ApplyKeyPrefix(key_prefix, outcfg) ==
    IF key_prefix # None
    THEN [pk \in {<<key_prefix>> \o k : k \in DOMAIN outcfg} |-> outcfg[Tail(pk)]]
    ELSE outcfg

\* line 157
AfterRun(n) == n - 1

\* the key prefix applied to a recovered output as to a fresh one
RecoveredOutcfgPrefixed(key_prefix, rec) == ApplyKeyPrefix(key_prefix, rec)

\* line 168: the recovered output is the record as read
RecoveredOutcfg(key_prefix, rec) == rec

\* no output file collected for verification
OutFilesNone(outcfg) == {}

\* lines 171-174
OutFiles(outcfg) == {outcfg[f] : f \in {k \in DOMAIN outcfg : Last(k) = "_file"}}

\* the merge with the earlier value winning
MergeStateEarlierWins(gs, outcfg) == DictMerge(outcfg, gs)

\* the output of the stage not merged
MergeStateDropped(gs, outcfg) == gs

\* line 183
MergeState(gs, outcfg) == DictMerge(gs, outcfg)

\* the final record written to the bare prefix
FinalPathBare(prefix) == prefix

\* line 187
FinalPath(prefix) == prefix \o FINAL_CONFIG_SUFFIX

\* ------------------------------------------------------------------------
\* The configurations execute is called with.

OutPrefix == <<"out/", "run">>

ToolsCfg ==
    (<<"plmc">> :> <<"bin/plmc">>) @@ (<<"theta">> :> <<"tools">>)

DatabasesCfg ==
    (<<"uniref">> :> <<"db/uniref">>) @@ (<<"theta">> :> <<"databases">>)

SectionCfg(stage) ==
    (<<"protocol">> :> <<"standard">>) @@ (<<"uniref">> :> <<"db/custom">>)
    @@ (<<"prefix">> :> <<"custom/", stage>>)
    @@ (<<"num_sites">> :> <<"default">>)

GlobalChoices ==
    { <<"prefix">> :> OutPrefix,
      (<<"prefix">> :> OutPrefix) @@ (<<"sequence_id">> :> <<"P12345">>)
          @@ (<<"num_sites">> :> <<"seed">>) }

NoSuchStage == "no_such_stage"

NoSuchPipeline == "no_such_pipeline"

\* Position of a name in a pipeline's stage names; names that are no stage of
\* the pipeline come last.
Pos(names, n) ==
    IF n \in Range(names) THEN CHOOSE i \in 1..Len(names) : names[i] = n
    ELSE Len(names) + 1

\* The requested lists: execute reads a list only through len and `in`, so
\* one ordering of each multiset of names is enough.  Names may repeat and
\* may be no stage of the pipeline.
StageLists(names) ==
    {s \in UNION {[1..n -> Range(names) \cup {NoSuchStage}] : n \in 0..MaxStages} :
        \A i \in 1..Len(s), j \in 1..Len(s) :
            i < j => Pos(names, s[i]) <= Pos(names, s[j])}

StagesValue(none, items) == [none |-> none, items |-> items]

\* A configuration of a registered pipeline: tools, databases and a section
\* for every stage of the pipeline except those in missing.
Kwargs(p, items, g, missing) ==
    ("pipeline" :> p) @@ ("stages" :> StagesValue(FALSE, items))
    @@ ("global" :> g) @@ ("tools" :> ToolsCfg) @@ ("databases" :> DatabasesCfg)
    @@ [st \in Range(StageNames(PIPELINES[p])) \ missing |-> SectionCfg(st)]

WellFormedOf(p) ==
    LET names == StageNames(PIPELINES[p])
    IN  {Kwargs(p, items, g, missing) :
            items \in StageLists(names), g \in GlobalChoices,
            missing \in {{}} \cup {{names[i]} : i \in 1..MaxMissing}}

WellFormed == UNION {WellFormedOf(p) : p \in DOMAIN PIPELINES}

\* Configurations with a defect in the top-level keys: each of pipeline,
\* stages and global is as it should be, absent or wrong.
Defective(base, pipe, stg, glob) ==
    LET keep == (DOMAIN base)
                  \ ( (IF pipe = "absent" THEN {"pipeline"} ELSE {})
                      \cup (IF stg = "absent" THEN {"stages"} ELSE {})
                      \cup (IF glob = "absent" THEN {"global"} ELSE {}) )
    IN  [k \in keep |->
            IF k = "pipeline" /\ pipe = "wrong" THEN NoSuchPipeline
            ELSE IF k = "stages" /\ stg = "wrong" THEN StagesValue(TRUE, <<>>)
            ELSE IF k = "global" /\ glob = "wrong" THEN EmptyDict
            ELSE base[k]]

Malformed ==
    {Defective(Kwargs("protein_monomer", <<"align">>, <<"prefix">> :> OutPrefix, {}),
               pipe, stg, glob) :
        pipe \in {"ok", "absent", "wrong"}, stg \in {"ok", "absent", "wrong"},
        glob \in {"ok", "absent", "wrong"}}

Configs == WellFormed \cup Malformed

\* ------------------------------------------------------------------------
\* State.

VARIABLES
    kwargs,             \* the configuration of the current (or last) call
    pc,                 \* "idle": no call in progress; "loop": in the stage loop
    prefix,             \* execute's local prefix
    global_state,       \* execute's local global_state
    num_stages_to_run,  \* execute's local countdown
    idx,                \* position of the loop in the pipeline definition
    records,            \* the configuration records on disk, by path
    dirs,               \* the directories on disk
    files,              \* the non-empty artifact files on disk
    calls,              \* number of calls begun
    result,             \* outcome of the last call that ended
    log,                \* what the current (or last) call did, in order
    before,             \* the disk when the current (or last) call began
    prev,               \* the call before the current one, if it returned:
                        \* its kwargs, log and result
    returned            \* by output record path: what the runner returned
                        \* when the record was last written

vars == <<kwargs, pc, prefix, global_state, num_stages_to_run, idx, records,
          dirs, files, calls, result, log, before, prev, returned>>

Event(ev, stage, path, cfg) ==
    [ev |-> ev, stage |-> stage, path |-> path, cfg |-> cfg]

Disk == [records |-> records, dirs |-> dirs, files |-> files]

NoCall == [kwargs |-> EmptyDict, log |-> <<>>, result |-> NoError, called |-> FALSE]

Init ==
    /\ kwargs = EmptyDict
    /\ pc = "idle"
    /\ prefix = <<>>
    /\ global_state = EmptyDict
    /\ num_stages_to_run = 0
    /\ idx = 0
    /\ records = EmptyDict
    /\ dirs = {}
    /\ files = {}
    /\ calls = 0
    /\ result = NoError
    /\ log = <<>>
    /\ before = [records |-> EmptyDict, dirs |-> {}, files |-> {}]
    /\ prev = NoCall
    /\ returned = EmptyDict

\* ------------------------------------------------------------------------
\* execute, lines 72-108: a call begins.

BeginCall(kw) ==
    /\ pc = "idle"
    /\ calls < MaxCalls
    /\ kwargs' = kw
    /\ calls' = calls + 1
    /\ before' = Disk
    /\ prev' = IF calls > 0 /\ result.kind = "ok"
               THEN [kwargs |-> kwargs, log |-> log, result |-> result,
                     called |-> TRUE]
               ELSE NoCall
    /\ UNCHANGED <<records, files, returned>>

\* one of the checks of lines 72-94 raises
Rejected(kw) ==
    /\ BeginCall(kw)
    /\ PreambleError(kw) # NoError
    /\ result' = PreambleError(kw)
    /\ log' = <<>>
    /\ UNCHANGED <<pc, prefix, global_state, num_stages_to_run, idx, dirs>>

\* lines 93-108: the locals are set and the output directory is made
Accepted(kw) ==
    /\ BeginCall(kw)
    /\ PreambleError(kw) = NoError
    /\ prefix' = kw["global"][<<"prefix">>]
    /\ dirs' = create_prefix_folders(dirs, prefix')
    /\ global_state' = kw["global"]
    /\ num_stages_to_run' = NumStagesToRun(kw["stages"].items)
    /\ idx' = 1
    /\ pc' = "loop"
    /\ result' = NoError
    /\ log' = <<Event("mkdir", "", Front(prefix'), EmptyDict)>>

\* ------------------------------------------------------------------------
\* execute, lines 111-183: one iteration of the stage loop.

pipeline == PIPELINES[kwargs["pipeline"]]

stages == kwargs["stages"].items

InLoop == pc = "loop" /\ idx <= Len(pipeline) /\ ~NothingLeft(num_stages_to_run)

stage == pipeline[idx].stage

\* the stage directory derived from the prefix in the Global State
stage_prefix_shadowed == insert_dir(global_state[<<"prefix">>], stage)

\* line 121
stage_prefix == insert_dir(prefix, stage)

stage_incfg == StageIncfgPath(stage_prefix, stage)

stage_outcfg == StageOutcfgPath(stage_prefix, stage)

MkStageDir == Event("mkdir", stage, Front(stage_prefix), EmptyDict)

\* the final record written on the way out of a failing call
RaiseFinally(err, events, recs) ==
    /\ pc' = "idle"
    /\ result' = err
    /\ log' = log \o events
    /\ records' = write_config_file(recs, FinalPath(prefix), global_state)
    /\ UNCHANGED <<kwargs, prefix, global_state, num_stages_to_run, idx, calls,
                   before, prev>>

\* the records of a failing call removed on the way out
RaiseCleanup(err, events, recs) ==
    /\ pc' = "idle"
    /\ result' = err
    /\ log' = log \o events
    /\ records' = before.records
    /\ UNCHANGED <<kwargs, prefix, global_state, num_stages_to_run, idx, calls,
                   before, prev>>

\* an exception leaves the call: the records are as written so far (recs),
\* nothing is undone and nothing more is written
Raise(err, events, recs) ==
    /\ pc' = "idle"
    /\ result' = err
    /\ log' = log \o events
    /\ records' = recs
    /\ UNCHANGED <<kwargs, prefix, global_state, num_stages_to_run, idx, calls,
                   before, prev>>

\* a section required only of the stages that are executed
StageSectionErrorIfExecuted ==
    IF ShouldExecute(stage, stages) THEN check_required(kwargs, <<stage>>)
    ELSE NoError

\* line 118
StageSectionError == check_required(kwargs, <<stage>>)

\* line 118 raises: the stage has no section
MissingSection ==
    /\ InLoop
    /\ StageSectionError # NoError
    /\ Raise(StageSectionError, <<>>, records)
    /\ UNCHANGED <<dirs, files, returned>>

\* lines 129-157 and 183: the stage is requested and its runner returns
RunStage(outcome) ==
    LET incfg == BuildIncfg(kwargs, stage, global_state, stage_prefix)
        raw == RunnerOut(pipeline[idx].runner, incfg)
        outcfg == ApplyKeyPrefix(pipeline[idx].key_prefix, raw)
    IN  /\ InLoop
        /\ StageSectionError = NoError
        /\ ShouldExecute(stage, stages)
        /\ outcome \in RunnerOutcomes \ {"raise"}
        /\ dirs' = create_prefix_folders(dirs, stage_prefix)
        /\ records' = write_config_file(
                          write_config_file(records, stage_incfg, incfg),
                          stage_outcfg, outcfg)
        /\ files' = IF outcome = "ok" THEN files \cup Artifacts(raw) ELSE files
        /\ returned' = (stage_outcfg :> raw) @@ returned
        /\ num_stages_to_run' = AfterRun(num_stages_to_run)
        /\ global_state' = MergeState(global_state, outcfg)
        /\ idx' = idx + 1
        /\ log' = log \o << MkStageDir,
                            Event("write", stage, stage_incfg, incfg),
                            Event("run", stage, <<>>, incfg),
                            Event("write", stage, stage_outcfg, outcfg),
                            Event("merge", stage, <<>>, outcfg) >>
        /\ UNCHANGED <<kwargs, pc, prefix, calls, result, before, prev>>

\* lines 129-143: the stage is requested and its runner raises
RunStageFails ==
    LET incfg == BuildIncfg(kwargs, stage, global_state, stage_prefix)
    IN  /\ InLoop
        /\ StageSectionError = NoError
        /\ ShouldExecute(stage, stages)
        /\ dirs' = create_prefix_folders(dirs, stage_prefix)
        /\ Raise(Raised("RunnerError", stage),
                 << MkStageDir,
                    Event("write", stage, stage_incfg, incfg),
                    Event("run", stage, <<>>, incfg) >>,
                 write_config_file(records, stage_incfg, incfg))
        /\ UNCHANGED <<files, returned>>

\* lines 158-183: the stage is not requested and is recovered from its record
SkipStage ==
    LET outcfg == RecoveredOutcfg(pipeline[idx].key_prefix,
                                  read_config_file(records, stage_outcfg))
    IN  /\ InLoop
        /\ StageSectionError = NoError
        /\ ~ShouldExecute(stage, stages)
        /\ verify_resources(records, files, {stage_outcfg})
        /\ verify_resources(records, files, OutFiles(outcfg))
        /\ dirs' = create_prefix_folders(dirs, stage_prefix)
        /\ global_state' = MergeState(global_state, outcfg)
        /\ idx' = idx + 1
        /\ log' = log \o << MkStageDir,
                            Event("read", stage, stage_outcfg, outcfg),
                            Event("merge", stage, <<>>, outcfg) >>
        /\ UNCHANGED <<kwargs, pc, prefix, num_stages_to_run, records, files,
                       calls, result, before, prev, returned>>

\* lines 160-165: the stage is not requested and has no output record
SkipNoRecord ==
    /\ InLoop
    /\ StageSectionError = NoError
    /\ ~ShouldExecute(stage, stages)
    /\ ~verify_resources(records, files, {stage_outcfg})
    /\ dirs' = create_prefix_folders(dirs, stage_prefix)
    /\ Raise(Raised("MissingResource", stage), <<MkStageDir>>, records)
    /\ UNCHANGED <<files, returned>>

\* lines 167-180: the record is there, one of the files it names is not
SkipNoFiles ==
    LET outcfg == RecoveredOutcfg(pipeline[idx].key_prefix,
                                  read_config_file(records, stage_outcfg))
    IN  /\ InLoop
        /\ StageSectionError = NoError
        /\ ~ShouldExecute(stage, stages)
        /\ verify_resources(records, files, {stage_outcfg})
        /\ ~verify_resources(records, files, OutFiles(outcfg))
        /\ dirs' = create_prefix_folders(dirs, stage_prefix)
        /\ Raise(Raised("MissingResource", stage),
                 << MkStageDir, Event("read", stage, stage_outcfg, outcfg) >>,
                 records)
        /\ UNCHANGED <<files, returned>>

\* lines 185-190: the loop has ended; the final record is written
Finish ==
    /\ pc = "loop"
    /\ ~InLoop
    /\ records' = write_config_file(records, FinalPath(prefix), global_state)
    /\ pc' = "idle"
    /\ result' = Result("ok", "", <<>>, global_state)
    /\ log' = Append(log, Event("write", "", FinalPath(prefix), global_state))
    /\ UNCHANGED <<kwargs, prefix, global_state, num_stages_to_run, idx, dirs,
                   files, calls, before, prev, returned>>

Next ==
    \/ \E kw \in Configs : Rejected(kw)
    \/ \E kw \in Configs : Accepted(kw)
    \/ MissingSection
    \/ \E outcome \in RunnerOutcomes \ {"raise"} : RunStage(outcome)
    \/ RunStageFails
    \/ SkipStage
    \/ SkipNoRecord
    \/ SkipNoFiles
    \/ Finish

Spec == Init /\ [][Next]_vars

\* ------------------------------------------------------------------------
\* Vocabulary of the properties.

\* the last call has ended
Ended == pc = "idle" /\ calls > 0

Succeeded == Ended /\ result.kind = "ok"

\* the call passed the checks of lines 72-94
Entered == calls > 0 /\ log # <<>>

EventsOf(l, ev) == SelectSeq(l, LAMBDA e : e.ev = ev)

\* the stages whose runner a call invoked, in order
RanStages(l) == [i \in 1..Len(EventsOf(l, "run")) |-> EventsOf(l, "run")[i].stage]

\* the stages of the definition that the list names, in definition order
RequestedOf(names, items) == SelectSeq(names, LAMBDA n : n \in Range(items))

HasEvent(l, ev, st) == \E i \in 1..Len(l) : l[i].ev = ev /\ l[i].stage = st

TheEvent(l, ev, st) == l[CHOOSE i \in 1..Len(l) : l[i].ev = ev /\ l[i].stage = st]

\* ------------------------------------------------------------------------
\* C1: a call that returns has invoked the runners of exactly the stages of
\* the resolved definition that the requested list names, each once and in
\* definition order; recovering other stages from disk takes none away.
C1_RunsExactlyRequested ==
    Succeeded => RanStages(log) = RequestedOf(StageNames(pipeline), stages)

\* a second call returned after recovering one stage and running another
C1_Witness ==
    /\ Succeeded
    /\ calls = 2
    /\ Len(EventsOf(log, "read")) >= 1
    /\ Len(RanStages(log)) >= 1

\* ------------------------------------------------------------------------
\* C2: after a call that returned with stages = [A, B], A and B consecutive,
\* the next call on the same configuration with stages = [B] does not invoke
\* A's runner, recovers A's output as the first call wrote it, hands B's
\* runner the input of the first call and, when it returns, returns the first
\* call's values for every key A or B contributed.

SameButStages(kw1, kw2) ==
    /\ DOMAIN kw1 = DOMAIN kw2
    /\ \A k \in (DOMAIN kw1) \ {"stages"} : kw1[k] = kw2[k]

\* the current call resumes the previous one at B = the stage at position i + 1
Resumes(i) ==
    /\ SameButStages(prev.kwargs, kwargs)
    /\ prev.kwargs["stages"].items = <<pipeline[i].stage, pipeline[i + 1].stage>>
    /\ stages = <<pipeline[i + 1].stage>>

ResumeCases == IF prev.called /\ Entered
               THEN {i \in 1..(Len(pipeline) - 1) : Resumes(i)} ELSE {}

C2_ResumeIdempotent ==
    \A i \in ResumeCases :
        LET A == pipeline[i].stage
            B == pipeline[i + 1].stage
            outA == TheEvent(prev.log, "merge", A).cfg
            outB == TheEvent(prev.log, "merge", B).cfg
        IN  /\ ~HasEvent(log, "run", A)
            /\ HasEvent(log, "merge", A) =>
                   /\ HasEvent(log, "read", A)
                   /\ TheEvent(log, "merge", A).cfg = outA
            /\ HasEvent(log, "run", B) =>
                   TheEvent(log, "run", B).cfg = TheEvent(prev.log, "run", B).cfg
            /\ Succeeded =>
                   \A k \in (DOMAIN outA) \cup (DOMAIN outB) :
                       /\ k \in DOMAIN result.state
                       /\ result.state[k] = prev.result.state[k]

\* the resuming call has returned, with B run on top of the recovered A
C2_Witness ==
    \E i \in ResumeCases :
        /\ Succeeded
        /\ HasEvent(log, "read", pipeline[i].stage)
        /\ HasEvent(log, "run", pipeline[i + 1].stage)

\* ------------------------------------------------------------------------
\* C3 (as amended): when the loop reaches, with a non-zero countdown, a stage
\* that has a section in the configuration, is not in the requested list and
\* has no (non-empty) output record on disk, the call fails with
\* MissingResource naming that stage.

SkippedWithoutRecord ==
    /\ InLoop
    /\ stage \in DOMAIN kwargs
    /\ stage \notin Range(stages)
    /\ stage_outcfg \notin DOMAIN records

C3_SkipWithoutCheckpoint ==
    [][SkippedWithoutRecord =>
          /\ pc' = "idle"
          /\ result' = Raised("MissingResource", stage)]_vars

\* a call failed at a stage it was to skip, the stage having no output record
C3_Witness ==
    /\ Ended
    /\ result.kind = "MissingResource"
    /\ result.stage \notin Range(stages)
    /\ StageOutcfgPath(insert_dir(prefix, result.stage), result.stage)
           \notin DOMAIN records

\* the stages of the definition left out of the request that had no output
\* record when the call began
OmittedWithoutRecord ==
    {i \in 1..Len(pipeline) :
        /\ pipeline[i].stage \notin Range(stages)
        /\ StageOutcfgPath(insert_dir(prefix, pipeline[i].stage), pipeline[i].stage)
               \notin DOMAIN before.records}

\* C3 as stated, for non-empty requests and calls that meet no other error
\* (a missing section, a failing runner): a call that leaves out a stage
\* which has no output record fails with MissingResource.
C3_Original ==
    (/\ Ended
     /\ Entered
     /\ stages # <<>>
     /\ OmittedWithoutRecord # {}
     /\ result.kind \notin {"MissingParameter", "RunnerError"}) =>
        result.kind = "MissingResource"

\* ------------------------------------------------------------------------
\* C4 as stated: for every requested list that names a stage of the
\* definition, no descriptor after the last requested stage is touched: no
\* directory made, no record read, written or verified, no runner invoked.

\* position of the last stage of the definition that the list names
LastRequested(names, items) ==
    IF \E i \in 1..Len(names) : names[i] \in Range(items)
    THEN CHOOSE i \in 1..Len(names) :
             /\ names[i] \in Range(items)
             /\ \A j \in (i + 1)..Len(names) : names[j] \notin Range(items)
    ELSE 0

C4_EarlyStop ==
    (Entered /\ LastRequested(StageNames(pipeline), stages) > 0) =>
        \A i \in 1..Len(log) :
            log[i].stage # "" =>
                Pos(StageNames(pipeline), log[i].stage)
                    <= LastRequested(StageNames(pipeline), stages)

\* ------------------------------------------------------------------------
\* C5 as stated: with a registered pipeline and a valid global section, a
\* call with stages = [] or stages = None fails with InvalidParameter and
\* leaves the disk as it was.

NoStagesRequested ==
    /\ {"pipeline", "stages", "global"} \subseteq DOMAIN kwargs
    /\ kwargs["pipeline"] \in DOMAIN PIPELINES
    /\ <<"prefix">> \in DOMAIN kwargs["global"]
    /\ (kwargs["stages"].none \/ kwargs["stages"].items = <<>>)

C5_NoStages ==
    (Ended /\ NoStagesRequested) =>
        /\ result.kind = "InvalidParameter"
        /\ Disk = before

\* ------------------------------------------------------------------------
\* C6 (as amended): a call whose configuration has the keys pipeline, stages
\* and global and whose pipeline is not registered fails with
\* InvalidParameter listing every registered pipeline name, and has no effect
\* on the disk.

RejectedAsUnregistered ==
    /\ result.kind = "InvalidParameter"
    /\ Range(result.names) = DOMAIN PIPELINES
    /\ Disk = before
    /\ log = <<>>

C6_UnknownPipeline ==
    (/\ Ended
     /\ {"pipeline", "stages", "global"} \subseteq DOMAIN kwargs
     /\ kwargs["pipeline"] \notin DOMAIN PIPELINES) => RejectedAsUnregistered

\* a call naming an unregistered pipeline has ended
C6_Witness ==
    /\ Ended
    /\ {"pipeline", "stages", "global"} \subseteq DOMAIN kwargs
    /\ kwargs["pipeline"] = NoSuchPipeline
    /\ result.kind = "InvalidParameter"

\* C6 as stated: every configuration whose pipeline value is not registered
\* is rejected with InvalidParameter listing the registered names.
C6_Original ==
    (/\ Ended
     /\ "pipeline" \in DOMAIN kwargs
     /\ kwargs["pipeline"] \notin DOMAIN PIPELINES) => RejectedAsUnregistered

\* ------------------------------------------------------------------------
\* C7 as stated, for configurations whose pipeline (if given) is registered
\* and whose stages (if given) is a list: if one of pipeline, stages, global
\* is absent, or global has no prefix, the call fails with MissingParameter
\* and has no effect on the disk.

LacksRequired ==
    \/ ~({"pipeline", "stages", "global"} \subseteq DOMAIN kwargs)
    \/ <<"prefix">> \notin DOMAIN kwargs["global"]

C7_MissingParameter ==
    (/\ Ended
     /\ "pipeline" \in DOMAIN kwargs => kwargs["pipeline"] \in DOMAIN PIPELINES
     /\ "stages" \in DOMAIN kwargs => ~kwargs["stages"].none
     /\ LacksRequired) =>
        /\ result.kind = "MissingParameter"
        /\ Disk = before

\* ------------------------------------------------------------------------
\* C8 as stated: a requested name that is no stage of the definition causes
\* no error: the call returns whenever the call without that name would.

\* The stage can be recovered from the disk as it was when the call began.
Recoverable(st) ==
    LET path == StageOutcfgPath(insert_dir(prefix, st), st)
    IN  /\ path \in DOMAIN before.records
        /\ verify_resources(before.records, before.files,
                            OutFiles(read_config_file(before.records, path)))

\* The call with only the names that are stages of the definition, at least
\* one and none twice, returns: every section is there, no runner raises and
\* every stage up to the last requested one is requested or recoverable.
WouldReturnWithoutUnknown ==
    LET names == StageNames(pipeline)
        real == SelectSeq(stages, LAMBDA n : n \in Range(names))
    IN  /\ real # <<>>
        /\ Cardinality(Range(real)) = Len(real)
        /\ result.kind # "RunnerError"
        /\ Range(names) \subseteq DOMAIN kwargs
        /\ \A i \in 1..LastRequested(names, stages) :
               names[i] \in Range(stages) \/ Recoverable(names[i])

C8_UnknownStageIgnored ==
    (/\ Ended
     /\ Entered
     /\ \E n \in Range(stages) : n \notin Range(StageNames(pipeline))
     /\ WouldReturnWithoutUnknown) => result.kind = "ok"

\* ------------------------------------------------------------------------
\* C9: in protein_complex, once align_1 and align_2 have been processed
\* (executed or recovered), the Global State holds first_<k> with the first
\* instance's value and second_<k> with the second instance's value for every
\* key k the runner returned, and holds no other key starting with first_ or
\* second_: no instance overwrites the other and no recovered key is
\* prefixed twice.

BothAligned ==
    /\ pc = "loop"
    /\ kwargs["pipeline"] = "protein_complex"
    /\ idx = 3

\* what the runner returned for the stage at position i, when its output
\* record was last written
ReturnedAt(i) ==
    returned[StageOutcfgPath(insert_dir(prefix, pipeline[i].stage),
                             pipeline[i].stage)]

C9_KeyPrefixIsolation ==
    BothAligned =>
        \A i \in {1, 2} :
            LET kp == pipeline[i].key_prefix
            IN  /\ \A k \in DOMAIN ReturnedAt(i) :
                       /\ <<kp>> \o k \in DOMAIN global_state
                       /\ global_state[<<kp>> \o k] = ReturnedAt(i)[k]
                /\ \A pk \in DOMAIN global_state :
                       pk[1] = kp => Tail(pk) \in DOMAIN ReturnedAt(i)

\* align_1 was recovered and align_2 executed, and the two instances
\* returned different values under one raw key
C9_Witness ==
    /\ BothAligned
    /\ HasEvent(log, "read", "align_1")
    /\ HasEvent(log, "run", "align_2")
    /\ \E k \in (DOMAIN ReturnedAt(1)) \cap (DOMAIN ReturnedAt(2)) :
           ReturnedAt(1)[k] # ReturnedAt(2)[k]

\* ------------------------------------------------------------------------
\* C10: during and after the loop the Global State has exactly the keys of
\* config.global and of the outputs merged so far, each with the value of the
\* latest merged output that has the key, or with the seed value if none has;
\* the outputs are merged in definition order.

Merged == EventsOf(log, "merge")

LatestWith(k) ==
    CHOOSE i \in 1..Len(Merged) :
        /\ k \in DOMAIN Merged[i].cfg
        /\ \A j \in (i + 1)..Len(Merged) : k \notin DOMAIN Merged[j].cfg

C10_MergeOrder ==
    Entered =>
        /\ DOMAIN global_state =
               (DOMAIN kwargs["global"])
                   \cup UNION {DOMAIN Merged[i].cfg : i \in 1..Len(Merged)}
        /\ \A k \in DOMAIN global_state :
               global_state[k] =
                   IF \E i \in 1..Len(Merged) : k \in DOMAIN Merged[i].cfg
                   THEN Merged[LatestWith(k)].cfg[k]
                   ELSE kwargs["global"][k]
        /\ \A i \in 1..Len(Merged), j \in 1..Len(Merged) :
               i < j => Pos(StageNames(pipeline), Merged[i].stage)
                            < Pos(StageNames(pipeline), Merged[j].stage)
        /\ Succeeded => result.state = global_state

\* a key of the seed has been overwritten by one stage and again by a later
\* one, while another seed key is untouched
C10_Witness ==
    /\ Entered
    /\ Len(Merged) >= 2
    /\ \E k \in DOMAIN kwargs["global"] :
           /\ k \in DOMAIN Merged[1].cfg
           /\ k \in DOMAIN Merged[2].cfg
           /\ Merged[1].cfg[k] # Merged[2].cfg[k]
           /\ Merged[1].cfg[k] # kwargs["global"][k]
    /\ \E k \in DOMAIN kwargs["global"] :
           \A i \in 1..Len(Merged) : k \notin DOMAIN Merged[i].cfg

\* ------------------------------------------------------------------------
\* Vocabulary of the claims about the records on disk.

IsFinalPath(p) == p # <<>> /\ Last(p) = FINAL_CONFIG_SUFFIX[1]

\* the place of the final record of the current call, from config.global
FinalRecord == kwargs["global"][<<"prefix">>] \o <<"_final.outcfg">>

\* the indices of the events of one kind in the log
Indices(l, ev) == {i \in 1..Len(l) : l[i].ev = ev}

Failed == Ended /\ result.kind # "ok"

\* ------------------------------------------------------------------------
\* C11: a call that ends with an error, whichever error and wherever it is
\* raised, has not written a final record: no write of the call goes to a path
\* ending in _final.outcfg and every final record on disk is the one that was
\* there when the call began.
C11_NoFinalOnError ==
    Failed =>
        /\ \A i \in Indices(log, "write") : ~IsFinalPath(log[i].path)
        /\ \A p \in (DOMAIN records) \cup (DOMAIN before.records) :
               IsFinalPath(p) =>
                   /\ p \in DOMAIN records
                   /\ p \in DOMAIN before.records
                   /\ records[p] = before.records[p]

\* a second call fails in a runner after an earlier stage of the same call has
\* written its output record, with the final record of the first call on disk
C11_Witness ==
    /\ Failed
    /\ result.kind = "RunnerError"
    /\ calls = 2
    /\ FinalRecord \in DOMAIN before.records
    /\ \E i \in Indices(log, "write") :
           /\ log[i].stage # result.stage
           /\ log[i].path = StageOutcfgPath(insert_dir(prefix, log[i].stage),
                                            log[i].stage)

\* ------------------------------------------------------------------------
\* C12: a call that returns has written the final record exactly once, as the
\* last thing it did, to <prefix>_final.outcfg with the prefix of
\* config.global, and what can be read back from it is the Global State that
\* the call returned; so also when the loop stopped early or no runner ran.
C12_FinalOnSuccess ==
    Succeeded =>
        /\ {i \in Indices(log, "write") : IsFinalPath(log[i].path)} = {Len(log)}
        /\ log[Len(log)].path = FinalRecord
        /\ log[Len(log)].cfg = result.state
        /\ FinalRecord \in DOMAIN records
        /\ read_config_file(records, FinalRecord) = result.state
        /\ result.state = global_state

\* a second call returns after running a stage and stopping early, and its
\* final record replaces a different one left by the first call
C12_Witness ==
    /\ Succeeded
    /\ calls = 2
    /\ RanStages(log) # <<>>
    /\ idx <= Len(pipeline)
    /\ FinalRecord \in DOMAIN before.records
    /\ before.records[FinalRecord] # records[FinalRecord]

\* a call returns without having invoked any runner
C12_NoRunner ==
    /\ Succeeded
    /\ RanStages(log) = <<>>
    /\ FinalRecord \in DOMAIN records

\* ------------------------------------------------------------------------
\* C13: within a call the input record of a stage is written before its runner
\* is invoked and holds what the runner is given; an output record is written
\* only after the runner of its stage has returned in the same call; when a
\* runner fails the call ends there, with no output record written for that
\* stage and nothing done for a later one. So every output record on disk
\* is of a stage whose runner has returned at least once.

\* the records of a stage, from config.global and the stage name
InRecord(st) ==
    insert_dir(kwargs["global"][<<"prefix">>], st) \o <<"_", st, ".incfg">>

OutRecord(st) ==
    insert_dir(kwargs["global"][<<"prefix">>], st) \o <<"_", st, ".outcfg">>

IsOutRecord(p) == p # <<>> /\ Last(p) = ".outcfg"

C13_CheckpointOrder ==
    /\ Entered =>
           /\ \A i \in Indices(log, "run") :
                  /\ i > 1
                  /\ log[i - 1].ev = "write"
                  /\ log[i - 1].path = InRecord(log[i].stage)
                  /\ log[i - 1].cfg = log[i].cfg
           /\ \A j \in Indices(log, "write") :
                  IsOutRecord(log[j].path) =>
                      /\ j > 1
                      /\ log[j - 1].ev = "run"
                      /\ log[j - 1].stage = log[j].stage
                      /\ log[j].path = OutRecord(log[j].stage)
                      /\ result.kind = "RunnerError"
                             => log[j].stage # result.stage
           /\ (Ended /\ result.kind = "RunnerError") =>
                  /\ log[Len(log)].ev = "run"
                  /\ log[Len(log)].stage = result.stage
    /\ \A p \in DOMAIN records : IsOutRecord(p) => p \in DOMAIN returned

\* a runner fails after an earlier stage of the same call has written its
\* output record: the input record of the failing stage is on disk, its
\* output record is not
C13_Witness ==
    /\ Ended
    /\ result.kind = "RunnerError"
    /\ InRecord(result.stage) \in DOMAIN records
    /\ OutRecord(result.stage) \notin DOMAIN records
    /\ \E j \in Indices(log, "write") : IsOutRecord(log[j].path)

\* ------------------------------------------------------------------------
\* C14: what a runner is given (and what its input record holds) has under
\* prefix the output directory of the stage itself, whatever the layers say;
\* every other key has the value of the Global State as it is when the stage
\* is reached if the state has the key, else of the stage's section, else of
\* databases, else of tools; and it has no other key.

\* the merges of the current call before its i-th event
MergedBefore(i) == {j \in Indices(log, "merge") : j < i}

\* the Global State at the i-th event, key by key: the latest merged output
\* that has the key, else config.global
StateHas(i, k) ==
    \/ k \in DOMAIN kwargs["global"]
    \/ \E j \in MergedBefore(i) : k \in DOMAIN log[j].cfg

StateAt(i, k) ==
    IF \E j \in MergedBefore(i) : k \in DOMAIN log[j].cfg
    THEN log[CHOOSE j \in MergedBefore(i) :
                 /\ k \in DOMAIN log[j].cfg
                 /\ \A h \in MergedBefore(i) :
                        h > j => k \notin DOMAIN log[h].cfg].cfg[k]
    ELSE kwargs["global"][k]

StateKeysAt(i) ==
    (DOMAIN kwargs["global"])
        \cup UNION {DOMAIN log[j].cfg : j \in MergedBefore(i)}

Layered(i, k) ==
    LET st == log[i].stage
    IN  IF k = <<"prefix">> THEN insert_dir(kwargs["global"][<<"prefix">>], st)
        ELSE IF StateHas(i, k) THEN StateAt(i, k)
        ELSE IF k \in DOMAIN kwargs[st] THEN kwargs[st][k]
        ELSE IF k \in DOMAIN kwargs["databases"] THEN kwargs["databases"][k]
        ELSE kwargs["tools"][k]

C14_LayeredInput ==
    Entered =>
        \A i \in Indices(log, "run") :
            /\ DOMAIN log[i].cfg =
                   {<<"prefix">>} \cup StateKeysAt(i)
                       \cup (DOMAIN kwargs[log[i].stage])
                       \cup (DOMAIN kwargs["databases"])
                       \cup (DOMAIN kwargs["tools"])
            /\ \A k \in DOMAIN log[i].cfg : log[i].cfg[k] = Layered(i, k)

\* a runner is invoked where every layer is shadowed by the next: a key of
\* tools by databases, one of databases by the section, one of the section by
\* an output merged earlier in the call, and the prefix of the section and
\* of the Global State both differ from the stage directory
C14_Witness ==
    /\ Entered
    /\ \E i \in Indices(log, "run") :
           LET st == log[i].stage
               in == log[i].cfg
           IN  /\ \E k \in (DOMAIN kwargs["tools"]) \cap (DOMAIN kwargs["databases"]) :
                      /\ kwargs["tools"][k] # kwargs["databases"][k]
                      /\ in[k] = kwargs["databases"][k]
               /\ \E k \in (DOMAIN kwargs["databases"]) \cap (DOMAIN kwargs[st]) :
                      /\ kwargs["databases"][k] # kwargs[st][k]
                      /\ in[k] = kwargs[st][k]
               /\ \E k \in (DOMAIN kwargs[st]) \ {<<"prefix">>} :
                      /\ \E j \in MergedBefore(i) : k \in DOMAIN log[j].cfg
                      /\ in[k] # kwargs[st][k]
               /\ kwargs[st][<<"prefix">>] # in[<<"prefix">>]
               /\ \E j \in MergedBefore(i) :
                      /\ <<"prefix">> \in DOMAIN log[j].cfg
                      /\ log[j].cfg[<<"prefix">>] # in[<<"prefix">>]

\* ------------------------------------------------------------------------
\* C15: when a runner is invoked, every stage that precedes its stage in the
\* definition has been processed earlier in the same call, executed or
\* recovered from its record, once each and in definition order, and what
\* each of them produced has been merged into the state the input is built
\* from: every key of an upstream output other than prefix is in the input with
\* the value of the latest upstream output that has it.

\* the outputs merged before the i-th event, as a sequence in log order
UpstreamOf(i) == SelectSeq(SubSeq(log, 1, i - 1), LAMBDA e : e.ev = "merge")

C15_UpstreamVisible ==
    Entered =>
        /\ \A j \in Indices(log, "merge") :
               /\ j > 1
               /\ log[j - 1].ev \in {"write", "read"}
               /\ log[j - 1].stage = log[j].stage
               /\ log[j - 1].path = OutRecord(log[j].stage)
               /\ log[j - 1].cfg = log[j].cfg
        /\ \A i \in Indices(log, "run") :
               LET up == UpstreamOf(i)
                   p == Pos(StageNames(pipeline), log[i].stage)
               IN  /\ Len(up) = p - 1
                   /\ \A q \in 1..Len(up) : up[q].stage = StageNames(pipeline)[q]
                   /\ \A q \in 1..Len(up) :
                          \A k \in (DOMAIN up[q].cfg) \ {<<"prefix">>} :
                              /\ k \in DOMAIN log[i].cfg
                              /\ (\A h \in (q + 1)..Len(up) : k \notin DOMAIN up[h].cfg)
                                     => log[i].cfg[k] = up[q].cfg[k]

\* the third stage of a definition is executed in a call that recovered the
\* two before it from disk, and its input carries a key of each of them
C15_Witness ==
    /\ Entered
    /\ \E i \in Indices(log, "run") :
           LET up == UpstreamOf(i)
           IN  /\ Len(up) = 2
               /\ Indices(SubSeq(log, 1, i - 1), "run") = {}
               /\ \E k \in (DOMAIN up[1].cfg) \ (DOMAIN up[2].cfg) :
                      log[i].cfg[k] = up[1].cfg[k]
               /\ \E k \in (DOMAIN up[2].cfg) \ (DOMAIN up[1].cfg) :
                      log[i].cfg[k] = up[2].cfg[k]

\* ------------------------------------------------------------------------
\* C16: when the loop recovers a stage whose output record exists, the values
\* of the record under keys ending in _file are checked and nothing else is:
\* if one of them is missing or empty the call ends with MissingResource naming
\* the stage, the Global State is left as it was and the loop does not go on;
\* if none is, the record is merged and the loop goes on, whatever the values
\* under the other keys are.

\* the loop is at a stage that has a section, is not requested and has an
\* output record on disk
AtRecordedSkip ==
    /\ InLoop
    /\ stage \in DOMAIN kwargs
    /\ stage \notin Range(stages)
    /\ OutRecord(stage) \in DOMAIN records

Recorded == read_config_file(records, OutRecord(stage))

Exists(path) == path \in files \/ path \in DOMAIN records

MissingFiles ==
    {k \in DOMAIN Recorded : Last(k) = "_file" /\ ~Exists(Recorded[k])}

C16_ArtifactsVerified ==
    [][AtRecordedSkip =>
          IF MissingFiles # {}
          THEN /\ pc' = "idle"
               /\ result' = Raised("MissingResource", stage)
               /\ global_state' = global_state
               /\ idx' = idx
               /\ Indices(log', "merge") = Indices(log, "merge")
               /\ Indices(log', "run") = Indices(log, "run")
          ELSE /\ pc' = "loop"
               /\ result' = result
               /\ idx' = idx + 1
               /\ global_state' = DictMerge(global_state, Recorded)]_vars

\* a call has ended at a recovered stage whose record was read and names a
\* file that is not there, next to values that are not paths at all
C16_Witness ==
    /\ Ended
    /\ result.kind = "MissingResource"
    /\ log[Len(log)].ev = "read"
    /\ log[Len(log)].stage = result.stage
    /\ \E k \in DOMAIN log[Len(log)].cfg :
           Last(k) = "_file" /\ ~Exists(log[Len(log)].cfg[k])
    /\ \E k \in DOMAIN log[Len(log)].cfg :
           Last(k) # "_file" /\ ~Exists(log[Len(log)].cfg[k])

\* a stage has been recovered and merged although values of its record under
\* keys not ending in _file name nothing on disk
C16_Unchecked ==
    /\ Entered
    /\ log[Len(log)].ev = "merge"
    /\ log[Len(log) - 1].ev = "read"
    /\ \E k \in DOMAIN log[Len(log)].cfg :
           Last(k) # "_file" /\ ~Exists(log[Len(log)].cfg[k])

\* ------------------------------------------------------------------------
\* C17: whenever the loop reaches a stage with a non-zero countdown and the
\* config has no section named after the stage, requested or not, the call
\* ends with MissingParameter naming the stage, and the step makes no
\* directory, reads and writes no record and invokes no runner.
AtStageWithoutSection == InLoop /\ stage \notin DOMAIN kwargs

C17_SectionRequired ==
    [][AtStageWithoutSection =>
          /\ pc' = "idle"
          /\ result'.kind = "MissingParameter"
          /\ result'.stage = stage
          /\ dirs' = dirs
          /\ records' = records
          /\ files' = files
          /\ returned' = returned
          /\ log' = log
          /\ global_state' = global_state]_vars

\* a call has ended with MissingParameter at a stage that is not requested
\* and would have been recovered: its directory has not been made
C17_Witness ==
    /\ Ended
    /\ Entered
    /\ result.kind = "MissingParameter"
    /\ result.stage = stage
    /\ stage \notin Range(stages)
    /\ Front(insert_dir(kwargs["global"][<<"prefix">>], stage)) \notin dirs

\* the same for a stage that is requested
C17_Requested ==
    /\ Ended
    /\ Entered
    /\ result.kind = "MissingParameter"
    /\ result.stage = stage
    /\ stage \in Range(stages)

\* ------------------------------------------------------------------------
\* C18: a call that fails inside the loop, for a missing section, a missing
\* record or file, or a failing runner, undoes nothing: every record it wrote
\* before failing is on disk and reads back as it was written, every record
\* and file that was there when the call began is still there, so that a
\* following call can recover the stages from them.
FailedInLoop ==
    /\ Failed
    /\ Entered
    /\ result.kind \in {"MissingResource", "MissingParameter", "RunnerError"}

C18_NoCleanup ==
    FailedInLoop =>
        /\ \A j \in Indices(log, "write") :
               /\ log[j].path \in DOMAIN records
               /\ read_config_file(records, log[j].path) = log[j].cfg
        /\ \A p \in DOMAIN before.records :
               /\ p \in DOMAIN records
               /\ (\A j \in Indices(log, "write") : log[j].path # p)
                      => records[p] = before.records[p]
        /\ before.files \subseteq files
        /\ before.dirs \subseteq dirs

\* a first call has failed after a stage wrote both its records, which are
\* on disk together with the input record of the stage whose runner failed
C18_Witness ==
    /\ FailedInLoop
    /\ calls = 1
    /\ \E st \in Range(StageNames(pipeline)) :
           /\ st # result.stage
           /\ \E j \in Indices(log, "write") : log[j].path = InRecord(st)
           /\ \E j \in Indices(log, "write") : log[j].path = OutRecord(st)
           /\ InRecord(st) \in DOMAIN records
           /\ OutRecord(st) \in DOMAIN records

\* a following call recovers a stage from the output record that a failed
\* call left: no call has returned yet, so no final record was on disk
C18_Recovered ==
    /\ Entered
    /\ calls = 2
    /\ FinalRecord \notin DOMAIN before.records
    /\ \E j \in Indices(log, "merge") :
           /\ log[j - 1].ev = "read"
           /\ log[j - 1].path \in DOMAIN before.records

\* ------------------------------------------------------------------------
\* C19: processing a stage that is not requested invokes no runner and writes
\* no record: the records, the files and the countdown are the same after the
\* step as before it. If the stage is recovered, the step merges the recorded
\* output into the Global State and changes nothing else on disk; if it is
\* not, the call ends with the Global State as it was (the stage directory
\* has been made at line 122, before the branch).
AtSkip ==
    /\ InLoop
    /\ stage \in DOMAIN kwargs
    /\ stage \notin Range(stages)

C19_SkipTouchesNothing ==
    [][AtSkip =>
          /\ records' = records
          /\ files' = files
          /\ returned' = returned
          /\ num_stages_to_run' = num_stages_to_run
          /\ Indices(log', "run") = Indices(log, "run")
          /\ Indices(log', "write") = Indices(log, "write")
          /\ IF pc' = "loop"
             THEN /\ global_state' = DictMerge(global_state, Recorded)
                  /\ idx' = idx + 1
                  /\ dirs' = dirs
             ELSE /\ global_state' = global_state
                  /\ result'.kind = "MissingResource"
                  /\ dirs' \subseteq
                         dirs \cup {Front(insert_dir(kwargs["global"][<<"prefix">>],
                                                     stage))}]_vars

\* a call has returned after recovering a stage: both records of the stage
\* are as they were when the call began, no runner was invoked for it and
\* the returned state holds what its record holds
C19_Witness ==
    /\ Succeeded
    /\ \E j \in Indices(log, "read") :
           LET st == log[j].stage
           IN  /\ InRecord(st) \in DOMAIN records
               /\ records[InRecord(st)] = before.records[InRecord(st)]
               /\ records[OutRecord(st)] = before.records[OutRecord(st)]
               /\ st \notin Range(RanStages(log))
               /\ \E k \in DOMAIN log[j].cfg :
                      /\ k \notin DOMAIN kwargs["global"]
                      /\ result.state[k] = log[j].cfg[k]

\* ------------------------------------------------------------------------
\* C20: every directory made, every record read or written and the final
\* record of a call are at the places derived from the prefix that
\* config.global had when the call began, and every runner is given the
\* directory derived from it, also after the output of an executed or
\* recovered stage has put another prefix into the Global State; no record
\* appears on disk anywhere else.
CallPrefix == kwargs["global"][<<"prefix">>]

PlacesOf(st) ==
    IF st = "" THEN [mkdir |-> {Front(CallPrefix)},
                     write |-> {FinalRecord},
                     read  |-> {}]
    ELSE [mkdir |-> {Front(insert_dir(CallPrefix, st))},
          write |-> {InRecord(st), OutRecord(st)},
          read  |-> {OutRecord(st)}]

C20_StableLayout ==
    Entered =>
        /\ \A i \in 1..Len(log) :
               /\ log[i].ev \in {"mkdir", "write", "read"}
                      => log[i].path \in PlacesOf(log[i].stage)[log[i].ev]
               /\ log[i].ev = "run"
                      => log[i].cfg[<<"prefix">>] = insert_dir(CallPrefix, log[i].stage)
        /\ \A p \in (DOMAIN records) \ (DOMAIN before.records) :
               \/ p = FinalRecord
               \/ \E st \in Range(StageNames(pipeline)) :
                      p \in {InRecord(st), OutRecord(st)}
        /\ \A d \in dirs \ before.dirs :
               \/ d = Front(CallPrefix)
               \/ \E st \in Range(StageNames(pipeline)) :
                      d = Front(insert_dir(CallPrefix, st))

\* a call has returned a Global State whose prefix is not that of
\* config.global: a recovered stage's record brought another one, after which
\* a later stage was executed and the final record written
C20_Witness ==
    /\ Succeeded
    /\ result.state[<<"prefix">>] # CallPrefix
    /\ \E j \in Indices(log, "read") :
           /\ <<"prefix">> \in DOMAIN log[j].cfg
           /\ log[j].cfg[<<"prefix">>] # CallPrefix
           /\ \E i \in Indices(log, "write") :
                  /\ i > j
                  /\ log[i].stage \notin {"", log[j].stage}
                  /\ log[i].path = OutRecord(log[i].stage)
    /\ FinalRecord \in DOMAIN records

\* the same with the other prefix coming from a stage executed in the call
C20_Executed ==
    /\ Succeeded
    /\ result.state[<<"prefix">>] # CallPrefix
    /\ \E j \in Indices(log, "run") :
           \E i \in Indices(log, "run") :
               /\ i > j
               /\ global_state[<<"prefix">>] # log[i].cfg[<<"prefix">>]
    /\ FinalRecord \in DOMAIN records

====
